---- MODULE Spec2Model ----
(***************************************************************************)
(* Model of src/cli.rs of glimpse: the command-line surface (struct Cli),  *)
(* the value parsers validate_path and parse_exclude, and the merge of the *)
(* parsed command line with the configuration in Cli::parse_with_config.   *)
(*                                                                         *)
(* Self::parse() (line 109) calls a value parser once per value, and each  *)
(* call probes the filesystem by itself; the environment may change the    *)
(* filesystem between any two probes.  Cli::parse_with_config is therefore *)
(* modelled as one step per probe, then the merge:                         *)
(*   pc = "start"  --ProbePath/ProbeExclude--> pc = "start"  (line 109)    *)
(*   pc = "start"  --ParseError--> pc = "exit"               (line 109)    *)
(*   pc = "start"  --Parse--> pc = "parsed"   (line 109, parse() returns)  *)
(*   pc = "parsed" --Merge--> pc = "done"     (lines 111-145)              *)
(*   pc = "done"                          (Ok(cli) returned)               *)
(*   pc = "exit"                          (clap reported an error, exited) *)
(***************************************************************************)
EXTENDS Integers, Sequences, FiniteSets, TLC

VARIABLES
    argv,      \* the raw command line handed to the process
    config,    \* the &Config argument of parse_with_config
    fs,        \* names for which Path::exists() currently answers true
    pc,        \* position inside parse_with_config
    probes,    \* the values the value parsers have returned so far
    parsed,    \* the value Self::parse() returned (line 109), kept for reference
    cli,       \* the local `cli` of parse_with_config, mutated in place
    result     \* "none" until parse_with_config returns, then "Ok"

vars == <<argv, config, fs, pc, probes, parsed, cli, result>>

----------------------------------------------------------------------------
(* Bounds *)

MaxNum == 2        \* numeric options and defaults range over 1..MaxNum
MaxExcl == 2       \* most --exclude pieces on one command line
MaxCfgExcl == 2    \* most entries of config.default_excludes

----------------------------------------------------------------------------
(* Option<T>: None is the empty tuple, Some(x) the one-element tuple *)

None == <<>>
Some(x) == <<x>>
IsSome(o) == o # None
Unwrap(o) == o[1]

\* Option::or (lines 112-114)
OptionOr(a, b) == IF IsSome(a) THEN a ELSE b

SeqsBetween(S, lo, hi) == UNION {[1..k -> S] : k \in lo..hi}

----------------------------------------------------------------------------
(* Types of src/cli.rs *)

OutputFormat == {"Tree", "Files", "Both"}
TokenizerType == {"Tiktoken", "HuggingFace"}

\* enum Exclude { File(PathBuf), Pattern(String) }
File(p) == [tag |-> "File", val |-> p]
Pattern(s) == [tag |-> "Pattern", val |-> s]

\* PathBuf::from(&str) wraps the bytes of the string unchanged
PathBufFrom(s) == s

\* Path::exists(): true exactly for the names the filesystem resolves;
\* the empty path never exists
exists(p, f) == p # "" /\ p \in f

\* OutputFormat::from(config.default_output_format) (line 114); the
\* conversion lives in the config module
OutputFormatFrom(v) ==
    CASE v = "Tree" -> "Tree"
      [] v = "Files" -> "Files"
      [] v = "Both" -> "Both"

----------------------------------------------------------------------------
(* Value parsers *)

\* fn validate_path (lines 149-155): Err when the path does not exist
validate_path(path, f) ==
    IF ~exists(PathBufFrom(path), f)
    THEN [ok |-> FALSE, val |-> path]
    ELSE [ok |-> TRUE, val |-> PathBufFrom(path)]

parse_exclude_swapped(value, f) ==
    IF exists(PathBufFrom(value), f)
    THEN Pattern(value)
    ELSE File(PathBufFrom(value))

\* fn parse_exclude (lines 157-164): always Ok
parse_exclude(value, f) ==
    IF exists(PathBufFrom(value), f)
    THEN File(PathBufFrom(value))
    ELSE Pattern(value)

\* paths: default_value = "." when no positional argument is given (line 35)
RawPaths(a) == IF a.paths = <<>> THEN <<".">> ELSE a.paths

\* a positional value has not been handed to validate_path yet
PathsPending(a, pr) == Len(pr.paths) < Len(RawPaths(a))

\* a piece of --exclude has not been handed to parse_exclude yet
ExcludePending(a, pr) == IsSome(a.exclude) /\ Len(pr.exclude) < Len(Unwrap(a.exclude))

\* the struct Self::parse() (line 109) builds from the command line and the
\* values the value parsers returned
CliParse(a, pr) ==
    [paths          |-> pr.paths,
     config_path    |-> a.config_path,
     include        |-> a.include,
     exclude        |-> IF IsSome(a.exclude) THEN Some(pr.exclude) ELSE None,
     max_size       |-> a.max_size,
     max_depth      |-> a.max_depth,
     output         |-> a.output,
     file           |-> a.file,
     print          |-> a.print,
     threads        |-> a.threads,
     hidden         |-> a.hidden,
     no_ignore      |-> a.no_ignore,
     no_tokens      |-> a.no_tokens,
     tokenizer      |-> a.tokenizer,
     model          |-> a.model,
     tokenizer_file |-> a.tokenizer_file,
     interactive    |-> a.interactive,
     pdf            |-> a.pdf]

----------------------------------------------------------------------------
(* Cli::parse_with_config, lines 111-143, on the local `cli` *)

ApplyScalarDefaults_ConfigWins(c, cfg) ==
    [c EXCEPT !.max_size = Some(cfg.max_size),
              !.max_depth = Some(cfg.max_depth),
              !.output = Some(OutputFormatFrom(cfg.default_output_format))]

ApplyScalarDefaults_SetsThreads(c, cfg) ==
    [c EXCEPT !.max_size = OptionOr(c.max_size, Some(cfg.max_size)),
              !.max_depth = OptionOr(c.max_depth, Some(cfg.max_depth)),
              !.output = OptionOr(c.output, Some(OutputFormatFrom(cfg.default_output_format))),
              !.threads = OptionOr(c.threads, Some(cfg.max_depth))]

\* lines 111-116
ApplyScalarDefaults(c, cfg) ==
    [c EXCEPT !.max_size = OptionOr(c.max_size, Some(cfg.max_size)),
              !.max_depth = OptionOr(c.max_depth, Some(cfg.max_depth)),
              !.output = OptionOr(c.output, Some(OutputFormatFrom(cfg.default_output_format)))]

MergeExcludes_ConfigFirst(c, cfg) ==
    IF IsSome(c.exclude)
    THEN [c EXCEPT !.exclude = Some(cfg.default_excludes \o Unwrap(c.exclude))]
    ELSE [c EXCEPT !.exclude = Some(cfg.default_excludes)]

MergeExcludes_NoElse(c, cfg) ==
    IF IsSome(c.exclude)
    THEN [c EXCEPT !.exclude = Some(Unwrap(c.exclude) \o cfg.default_excludes)]
    ELSE c

\* lines 118-124
MergeExcludes(c, cfg) ==
    IF IsSome(c.exclude)
    THEN [c EXCEPT !.exclude = Some(Unwrap(c.exclude) \o cfg.default_excludes)]
    ELSE [c EXCEPT !.exclude = Some(cfg.default_excludes)]

TokenizerFromName_Swapped(name) ==
    IF name = "tiktoken" THEN "Tiktoken" ELSE "HuggingFace"

\* the match of lines 128-131
TokenizerFromName(name) ==
    IF name = "huggingface" THEN "HuggingFace" ELSE "Tiktoken"

DefaultTokenizer_IgnoresNoTokens(c, cfg) ==
    IF c.tokenizer = None
    THEN [c EXCEPT !.tokenizer = Some(TokenizerFromName(cfg.default_tokenizer))]
    ELSE c

\* lines 126-132
DefaultTokenizer(c, cfg) ==
    IF ~c.no_tokens /\ c.tokenizer = None
    THEN [c EXCEPT !.tokenizer = Some(TokenizerFromName(cfg.default_tokenizer))]
    ELSE c

DefaultModel_IgnoresFile(c, cfg) ==
    IF /\ IsSome(c.tokenizer) /\ Unwrap(c.tokenizer) = "HuggingFace"
       /\ c.model = None
    THEN [c EXCEPT !.model = Some(cfg.default_tokenizer_model)]
    ELSE c

DefaultModel_Overwrites(c, cfg) ==
    IF /\ IsSome(c.tokenizer) /\ Unwrap(c.tokenizer) = "HuggingFace"
       /\ c.tokenizer_file = None
    THEN [c EXCEPT !.model = Some(cfg.default_tokenizer_model)]
    ELSE c

\* lines 134-143
DefaultModel(c, cfg) ==
    IF /\ IsSome(c.tokenizer) /\ Unwrap(c.tokenizer) = "HuggingFace"
       /\ c.model = None
       /\ c.tokenizer_file = None
    THEN [c EXCEPT !.model = Some(cfg.default_tokenizer_model)]
    ELSE c

MergeWithConfig_ShortCircuit(c, cfg) ==
    IF c.config_path
    THEN c
    ELSE DefaultModel(DefaultTokenizer(MergeExcludes(ApplyScalarDefaults(c, cfg), cfg), cfg), cfg)

\* lines 111-143 in order
MergeWithConfig(c, cfg) ==
    DefaultModel(DefaultTokenizer(MergeExcludes(ApplyScalarDefaults(c, cfg), cfg), cfg), cfg)

----------------------------------------------------------------------------
(* Inputs *)

\* names the environment may create and remove; "." is the working directory
Names == {"build", "*.rs"}
FsStates == {{"."} \cup s : s \in SUBSET Names}

Nums == 1..MaxNum
OptNums == {None} \cup {Some(n) : n \in Nums}
OptFormats == {None} \cup {Some(o) : o \in OutputFormat}
OptTokenizers == {None} \cup {Some(t) : t \in TokenizerType}
OptModels == {None, Some("gpt2")}
OptFiles == {None, Some("tok.json")}
\* pieces of --exclude after the split at commas; a piece may be empty
ExcludeTokens == Names \cup {""}
RawExcludes == {None} \cup {Some(s) : s \in SeqsBetween(ExcludeTokens, 1, MaxExcl)}
CfgExcludes == SeqsBetween({File("build"), Pattern("*.rs")}, 0, MaxCfgExcl)
TokenizerNames == {"huggingface", "tiktoken", "", "HuggingFace", "hugingface"}
ModelNames == {"gpt2", "bert"}

\* a command line with no argument at all
ArgvNone ==
    [paths |-> <<>>, config_path |-> FALSE, include |-> None, exclude |-> None,
     max_size |-> None, max_depth |-> None, output |-> None, file |-> None,
     print |-> FALSE, threads |-> None, hidden |-> FALSE, no_ignore |-> FALSE,
     no_tokens |-> FALSE, tokenizer |-> None, model |-> None,
     tokenizer_file |-> None, interactive |-> FALSE, pdf |-> None]

\* a command line with every option given (token counting left enabled)
ArgvAll ==
    [paths |-> <<"build">>, config_path |-> TRUE, include |-> Some(<<"*.go">>),
     exclude |-> Some(<<"build">>),
     max_size |-> Some(1), max_depth |-> Some(1), output |-> Some("Both"),
     file |-> Some("out.txt"),
     print |-> TRUE, threads |-> Some(1), hidden |-> TRUE, no_ignore |-> TRUE,
     no_tokens |-> FALSE, tokenizer |-> Some("HuggingFace"), model |-> Some("gpt2"),
     tokenizer_file |-> Some("tok.json"), interactive |-> TRUE, pdf |-> Some("out.pdf")]

ArgvBases == {ArgvNone, ArgvAll}

CfgA ==
    [max_size |-> 1, max_depth |-> 1, default_output_format |-> "Tree",
     default_excludes |-> <<>>, default_tokenizer |-> "tiktoken",
     default_tokenizer_model |-> "gpt2"]

CfgB ==
    [max_size |-> MaxNum, max_depth |-> MaxNum, default_output_format |-> "Files",
     default_excludes |-> <<Pattern("*.rs")>>, default_tokenizer |-> "huggingface",
     default_tokenizer_model |-> "bert"]

CfgBases == {CfgA, CfgB}

\* scalar options against scalar defaults
ScalarInputs ==
    {<<[b EXCEPT !.max_size = ms, !.max_depth = md, !.output = o],
       [k EXCEPT !.max_size = cs, !.max_depth = cd, !.default_output_format = cf]>> :
        b \in ArgvBases, k \in CfgBases,
        ms \in OptNums, md \in OptNums, o \in OptFormats,
        cs \in Nums, cd \in Nums, cf \in OutputFormat}

\* --exclude against default_excludes
ExcludeInputs ==
    {<<[b EXCEPT !.exclude = e], [k EXCEPT !.default_excludes = ce]>> :
        b \in ArgvBases, k \in CfgBases, e \in RawExcludes, ce \in CfgExcludes}

\* the tokenizer options against the tokenizer defaults
TokenizerInputs ==
    {<<[b EXCEPT !.no_tokens = nt, !.tokenizer = t, !.model = m, !.tokenizer_file = tf],
       [k EXCEPT !.default_tokenizer = dt, !.default_tokenizer_model = dm]>> :
        b \in ArgvBases, k \in CfgBases,
        nt \in BOOLEAN, t \in OptTokenizers, m \in OptModels, tf \in OptFiles,
        dt \in TokenizerNames, dm \in ModelNames}

\* the options that have no configuration default
FrameInputs ==
    {<<[b EXCEPT !.paths = p, !.config_path = cp, !.include = inc, !.file = fl,
                 !.print = pr, !.threads = th, !.hidden = hd, !.no_ignore = ni,
                 !.no_tokens = nt, !.interactive = ia, !.pdf = pd], k>> :
        b \in {ArgvNone}, k \in CfgBases,
        p \in {<<>>, <<"build">>}, cp \in BOOLEAN, inc \in {None, Some(<<"*.go">>)},
        fl \in {None, Some("out.txt")}, pr \in BOOLEAN, th \in {None, Some(MaxNum)},
        hd \in BOOLEAN, ni \in BOOLEAN, nt \in BOOLEAN, ia \in BOOLEAN,
        pd \in {None, Some("out.pdf")}}

Inputs == ScalarInputs \cup ExcludeInputs \cup TokenizerInputs \cup FrameInputs

----------------------------------------------------------------------------
(* State machine *)

Init ==
    /\ \E in \in Inputs : argv = in[1] /\ config = in[2]
    /\ fs \in FsStates
    /\ pc = "start"
    /\ probes = [paths |-> <<>>, exclude |-> <<>>]
    /\ parsed = ArgvNone
    /\ cli = ArgvNone
    /\ result = "none"

\* line 109, clap hands the next positional value (or the default ".") to
\* validate_path, which finds it
ProbePath ==
    /\ pc = "start"
    /\ PathsPending(argv, probes)
    /\ LET r == validate_path(RawPaths(argv)[Len(probes.paths) + 1], fs)
       IN /\ r.ok
          /\ probes' = [probes EXCEPT !.paths = Append(@, r.val)]
    /\ UNCHANGED <<argv, config, fs, pc, parsed, cli, result>>

\* line 109, validate_path returns Err: clap reports it and the process exits
ParseError ==
    /\ pc = "start"
    /\ PathsPending(argv, probes)
    /\ ~validate_path(RawPaths(argv)[Len(probes.paths) + 1], fs).ok
    /\ pc' = "exit"
    /\ UNCHANGED <<argv, config, fs, probes, parsed, cli, result>>

\* line 109, clap hands the next piece of --exclude to parse_exclude; the
\* command line decides how the pieces and the positional values alternate
ProbeExclude ==
    /\ pc = "start"
    /\ ExcludePending(argv, probes)
    /\ probes' = [probes EXCEPT !.exclude =
                     Append(@, parse_exclude(Unwrap(argv.exclude)[Len(probes.exclude) + 1], fs))]
    /\ UNCHANGED <<argv, config, fs, pc, parsed, cli, result>>

\* line 109, every value is parsed and Self::parse() returns
Parse ==
    /\ pc = "start"
    /\ ~PathsPending(argv, probes)
    /\ ~ExcludePending(argv, probes)
    /\ parsed' = CliParse(argv, probes)
    /\ cli' = CliParse(argv, probes)
    /\ pc' = "parsed"
    /\ UNCHANGED <<argv, config, fs, probes, result>>

\* lines 111-145
Merge ==
    /\ pc = "parsed"
    /\ cli' = MergeWithConfig(cli, config)
    /\ result' = "Ok"
    /\ pc' = "done"
    /\ UNCHANGED <<argv, config, fs, probes, parsed>>

\* the environment creates an entry
FsCreate(n) ==
    /\ n \notin fs
    /\ fs' = fs \cup {n}
    /\ UNCHANGED <<argv, config, pc, probes, parsed, cli, result>>

\* the environment removes an entry
FsRemove(n) ==
    /\ n \in fs
    /\ fs' = fs \ {n}
    /\ UNCHANGED <<argv, config, pc, probes, parsed, cli, result>>

Next ==
    \/ ProbePath
    \/ ParseError
    \/ ProbeExclude
    \/ Parse
    \/ Merge
    \/ \E n \in Names : FsCreate(n)
    \/ \E n \in Names : FsRemove(n)

Spec == Init /\ [][Next]_vars

----------------------------------------------------------------------------
(* Properties *)

Returned == pc = "done"

\* C1: after parse_with_config each of max_size, max_depth and output equals
\* the command-line value when one was supplied, whatever the configuration
\* holds, and the configuration's default when none was supplied.
C1_ScalarOverride ==
    Returned =>
        /\ cli.max_size = IF parsed.max_size # None THEN parsed.max_size
                          ELSE Some(config.max_size)
        /\ cli.max_depth = IF parsed.max_depth # None THEN parsed.max_depth
                           ELSE Some(config.max_depth)
        /\ cli.output = IF parsed.output # None THEN parsed.output
                        ELSE Some(config.default_output_format)

\* a supplied max_size that differs from the configuration's, next to an
\* output taken from the configuration
C1_Witness ==
    /\ Returned
    /\ parsed.max_size # None /\ Unwrap(parsed.max_size) # config.max_size
    /\ cli.max_size = parsed.max_size
    /\ parsed.output = None /\ cli.output = Some(config.default_output_format)
    /\ parsed.max_depth = None /\ cli.max_depth = Some(config.max_depth)

\* C2: the resolved exclude list is the command-line entries in order followed
\* by config.default_excludes in order, nothing removed, deduplicated or
\* reordered; with no --exclude it is exactly config.default_excludes.
C2_ExcludeMerge ==
    Returned =>
        /\ cli.exclude # None
        /\ LET out == Unwrap(cli.exclude)
               cfg == config.default_excludes
           IN IF parsed.exclude = None
              THEN out = cfg
              ELSE LET cl == Unwrap(parsed.exclude)
                   IN /\ Len(out) = Len(cl) + Len(cfg)
                      /\ \A i \in 1..Len(cl) : out[i] = cl[i]
                      /\ \A j \in 1..Len(cfg) : out[Len(cl) + j] = cfg[j]

\* a command-line entry that also is a configuration default is kept twice,
\* and the two sources differ in their first entries
C2_Witness ==
    /\ Returned
    /\ parsed.exclude # None
    /\ Len(config.default_excludes) = 2
    /\ Len(Unwrap(cli.exclude)) = 4
    /\ Unwrap(parsed.exclude)[1] # config.default_excludes[1]
    /\ Unwrap(cli.exclude)[2] = Unwrap(cli.exclude)[3]

\* C3 as stated: whenever no_tokens is true the result has the tokenizer kind
\* and the model both absent, for every combination of tokenizer flags.
C3_Original ==
    (Returned /\ parsed.no_tokens) => (cli.tokenizer = None /\ cli.model = None)

\* C3 amended: whenever no_tokens is true and neither --tokenizer nor --model
\* was given, the result has the tokenizer kind and the model both absent, for
\* every configuration and with or without --tokenizer-file.
C3_NoTokensNoDefaults ==
    (Returned /\ parsed.no_tokens /\ parsed.tokenizer = None /\ parsed.model = None)
        => (cli.tokenizer = None /\ cli.model = None)

\* token counting disabled, no tokenizer flag, and a configuration that
\* would otherwise select HuggingFace and a model
C3_Witness ==
    /\ Returned
    /\ parsed.no_tokens /\ parsed.tokenizer = None /\ parsed.model = None
    /\ parsed.tokenizer_file = None
    /\ config.default_tokenizer = "huggingface"
    /\ cli.tokenizer = None /\ cli.model = None

\* C4 as stated: when a tokenizer file was supplied the result never has both
\* model and tokenizer_file populated, also when a model was supplied too.
C4_Original ==
    (Returned /\ parsed.tokenizer_file # None)
        => ~(cli.model # None /\ cli.tokenizer_file # None)

\* C4 amended: when a tokenizer file was supplied and no model was supplied,
\* the result never has both model and tokenizer_file populated (the model
\* stays absent); a model supplied together with the file is kept.
C4_FileBlocksModelDefault ==
    (Returned /\ parsed.tokenizer_file # None) =>
        /\ cli.tokenizer_file = parsed.tokenizer_file
        /\ cli.model = parsed.model
        /\ parsed.model = None => ~(cli.model # None /\ cli.tokenizer_file # None)

\* a tokenizer file with the HuggingFace kind resolved and no model given
C4_Witness ==
    /\ Returned
    /\ parsed.tokenizer_file # None /\ parsed.model = None
    /\ cli.tokenizer = Some("HuggingFace")
    /\ cli.model = None /\ cli.tokenizer_file # None

\* C5: with token counting enabled an explicit kind is kept whatever
\* config.default_tokenizer says; without one the kind is HuggingFace exactly
\* when config.default_tokenizer is "huggingface" and Tiktoken for every other
\* string; the kind is always present.
C5_TokenizerKind ==
    (Returned /\ ~parsed.no_tokens) =>
        /\ cli.tokenizer # None
        /\ parsed.tokenizer # None => cli.tokenizer = parsed.tokenizer
        /\ parsed.tokenizer = None =>
              /\ config.default_tokenizer = "huggingface"
                    => cli.tokenizer = Some("HuggingFace")
              /\ config.default_tokenizer # "huggingface"
                    => cli.tokenizer = Some("Tiktoken")

\* a differently-cased name falls back to Tiktoken
C5_Witness ==
    /\ Returned
    /\ ~parsed.no_tokens /\ parsed.tokenizer = None
    /\ config.default_tokenizer = "HuggingFace"
    /\ cli.tokenizer = Some("Tiktoken")

\* C6: the model becomes config.default_tokenizer_model if and only if the
\* resolved kind is HuggingFace, no model was supplied and no tokenizer file
\* was supplied; in every other case it is as the command line gave it.
C6_ModelDefault ==
    Returned =>
        cli.model = IF /\ cli.tokenizer = Some("HuggingFace")
                       /\ parsed.model = None
                       /\ parsed.tokenizer_file = None
                    THEN Some(config.default_tokenizer_model)
                    ELSE parsed.model

\* the kind came from the configuration and the model followed it
C6_Witness ==
    /\ Returned
    /\ parsed.tokenizer = None /\ parsed.model = None /\ parsed.tokenizer_file = None
    /\ cli.tokenizer = Some("HuggingFace")
    /\ cli.model = Some(config.default_tokenizer_model)

\* the entry parse_exclude is expected to make of a token
ExpectedEntry(tok, exist) ==
    IF exist THEN [tag |-> "File", val |-> tok] ELSE [tag |-> "Pattern", val |-> tok]

\* C7: parse_exclude always succeeds; every --exclude token becomes
\* File(token) when it named an existing entry at the moment it was parsed,
\* also when it looks like a glob, and Pattern(token) otherwise; the rest of
\* parsing, the merge and later changes of the filesystem leave the entries
\* as they were made.
C7_ExcludeDisambiguation ==
    /\ [][(pc = "start" /\ probes'.exclude # probes.exclude) =>
            LET n == Len(probes.exclude) + 1
                tok == Unwrap(argv.exclude)[n]
            IN /\ pc' = "start"
               /\ Len(probes'.exclude) = n
               /\ \A i \in 1..(n - 1) : probes'.exclude[i] = probes.exclude[i]
               /\ probes'.exclude[n] = ExpectedEntry(tok, tok \in fs)]_vars
    /\ [][(pc = "start" /\ pc' = "parsed" /\ argv.exclude # None) =>
            /\ cli'.exclude = Some(probes.exclude)
            /\ parsed'.exclude = Some(probes.exclude)
            /\ Len(probes.exclude) = Len(Unwrap(argv.exclude))]_vars
    /\ [][(pc \in {"parsed", "done"} /\ parsed.exclude # None) =>
            /\ parsed' = parsed
            /\ cli'.exclude # None
            /\ \A i \in 1..Len(Unwrap(parsed.exclude)) :
                  Unwrap(cli'.exclude)[i] = Unwrap(parsed.exclude)[i]]_vars

\* the same token given twice: "build" existed when the first was parsed
\* and was made a File, it was gone when the second was parsed, which was
\* made a Pattern; "build" exists again now and both entries are as made
C7_Witness ==
    /\ Returned
    /\ argv.exclude = Some(<<"build", "build">>)
    /\ Unwrap(cli.exclude)[1] = [tag |-> "File", val |-> "build"]
    /\ Unwrap(cli.exclude)[2] = [tag |-> "Pattern", val |-> "build"]
    /\ "build" \in fs

\* C8 as stated: when config_path is set no merge step is applied to the
\* parsed options.
C8_Original ==
    (Returned /\ parsed.config_path) => cli = parsed

\* C8 amended: when config_path is set parse_with_config still applies every
\* merge step (the scalars and the exclude list are filled, and the tokenizer
\* kind when token counting is enabled); the flag is passed through set.
C8_ConfigPathStillMerges ==
    (Returned /\ parsed.config_path) =>
        /\ cli.config_path
        /\ cli.max_size # None /\ cli.max_depth # None /\ cli.output # None
        /\ cli.exclude # None
        /\ ~parsed.no_tokens => cli.tokenizer # None

\* --config-path alone: everything was defaulted from the configuration
C8_Witness ==
    /\ Returned
    /\ parsed.config_path
    /\ parsed.max_size = None /\ parsed.exclude = None /\ parsed.tokenizer = None
    /\ ~parsed.no_tokens
    /\ cli.max_size = Some(config.max_size)
    /\ cli.exclude = Some(config.default_excludes)
    /\ cli.tokenizer # None
    /\ cli # parsed

\* C9: once parsing succeeded parse_with_config returns Ok, with max_size,
\* max_depth, output and exclude all present; the exclude list is empty only
\* if the command line gave no entries and config.default_excludes is empty.
C9_TotalAndFilled ==
    /\ (pc = "done") <=> (result = "Ok")
    /\ Returned =>
        /\ cli.max_size # None /\ cli.max_depth # None
        /\ cli.output # None /\ cli.exclude # None
        /\ Unwrap(cli.exclude) = <<>> =>
              /\ (parsed.exclude = None \/ Unwrap(parsed.exclude) = <<>>)
              /\ config.default_excludes = <<>>

\* nothing supplied and an empty default list: present but empty
C9_Witness ==
    /\ Returned /\ result = "Ok"
    /\ parsed.max_size = None /\ parsed.max_depth = None /\ parsed.output = None
    /\ parsed.exclude = None /\ config.default_excludes = <<>>
    /\ cli.exclude = Some(<<>>)
    /\ cli.max_size # None /\ cli.max_depth # None /\ cli.output # None

PassThrough(c) ==
    <<c.paths, c.include, c.threads, c.file, c.pdf, c.tokenizer_file,
      c.hidden, c.no_ignore, c.no_tokens, c.interactive, c.print, c.config_path>>

\* C10: parse_with_config leaves paths, include, threads, file, pdf,
\* tokenizer_file and every boolean flag as parsing produced them, for every
\* configuration, and no step changes the configuration.
C10_PassThroughFrame ==
    /\ [](Returned => PassThrough(cli) = PassThrough(parsed))
    /\ [][config' = config]_vars

\* nothing but the defaulted options changed, and the unset ones stayed unset
C10_Witness ==
    /\ Returned
    /\ cli # parsed
    /\ parsed.threads = None /\ cli.threads = None
    /\ parsed.include = None /\ cli.include = None
    /\ parsed.pdf = None /\ cli.pdf = None
    /\ ~parsed.hidden /\ ~cli.hidden
    /\ PassThrough(cli) = PassThrough(parsed)

====
